---- MODULE Spec2Model ----
(***************************************************************************)
(* A model of kt-cli (src/kt-cli.js): a sequence of CLI invocations, each  *)
(* a fresh process, over one persistent filesystem.                        *)
(*                                                                         *)
(* Strings that the code takes apart (the project name, paths) are         *)
(* sequences of symbols; a path is a sequence of segments and a segment a  *)
(* sequence of symbols.  The fixed names of the code ("src",               *)
(* "package.json") are one-symbol segments.                                *)
(*                                                                         *)
(* Fault model: a call that writes to the filesystem (mkdirSync,           *)
(* writeFileSync, copyFileSync) may throw and then changes nothing; a git  *)
(* subprocess may fail; existsSync never throws; a read of an entry that   *)
(* exists succeeds; chdir throws exactly when its target is no directory.  *)
(***************************************************************************)
EXTENDS Integers, Sequences, FiniteSets, TLC

\* Number of CLI invocations in one behaviour.
MaxRuns == 2

\* Number of projects the invocations of one behaviour create: a `new` that
\* would pass validation is started only while fewer exist.
MaxProjects == 1

\* Tests registered with the test runner of the generated test file.
MaxTests == 3

\* Consecutive `ai prepare` invocations.
MaxPrepares == 3

\* The longest path, in segments, the filesystem accepts (PATH_MAX).
MaxPathLen == 10

\* Directories of up to this many entries are listed in every order.
MaxShuffled == 3

\* ------------------------------------------------------------------------
\* Strings and paths (Node's path module on POSIX)
\* ------------------------------------------------------------------------
Sep == "/"
Dot == <<".">>
DotDot == <<".", ".">>

\* args[1] when the command line has no second token.
Undefined == <<"undefined">>

Seg(s) == <<s>>

\* s.split('/'), as path.normalize sees the segments of a string.
RECURSIVE Split(_)
Split(s) ==
  IF s = <<>> THEN << <<>> >>
  ELSE LET rest == Split(Tail(s))
       IN  IF Head(s) = Sep
             THEN << <<>> >> \o rest
             ELSE << <<Head(s)>> \o Head(rest) >> \o Tail(rest)

\* Normalisation of segments on top of an absolute, normalised base: empty
\* and "." segments vanish, ".." removes the last segment (none at the root).
RECURSIVE Resolve(_, _)
Resolve(base, parts) ==
  IF parts = <<>> THEN base
  ELSE LET p == Head(parts)
           b == IF p = <<>> \/ p = Dot THEN base
                ELSE IF p = DotDot
                       THEN IF base = <<>> THEN base
                            ELSE SubSeq(base, 1, Len(base) - 1)
                ELSE Append(base, p)
       IN  Resolve(b, Tail(parts))

\* path.join(dir, str) for an absolute dir and a string of symbols.  The
\* trailing separator path.join keeps is dropped: no fs call on a directory
\* distinguishes "/w/a/" from "/w/a".
PathJoin(dir, str) == Resolve(dir, Split(str))

\* path.join(dir, 'x/y') for a literal of the code, given as its segments.
JoinRel(dir, rel) == dir \o rel

\* path.basename(p): the last segment, "" for the root.
Basename(p) == IF p = <<>> THEN <<>> ELSE p[Len(p)]

Dirname(p) == IF p = <<>> THEN <<>> ELSE SubSeq(p, 1, Len(p) - 1)

IsPrefix(p, q) == Len(p) <= Len(q) /\ SubSeq(q, 1, Len(p)) = p

Prefixes(p) == { SubSeq(p, 1, n) : n \in 0..Len(p) }

\* ------------------------------------------------------------------------
\* The environment
\* ------------------------------------------------------------------------
\* The directory the user works in, $HOME, and the directory of kt-cli.js.
Workspace == << Seg("w") >>
Home == << Seg("home") >>
InstallDir == << Seg("opt"), Seg("kt"), Seg("bin") >>

\* The value of process.env.HOME when the variable is not set.
NoHome == << Undefined >>

\* Project names given on the command line.
Names ==
  { <<>>,
    <<"a">>,
    <<"a", "/", "b">>,
    <<"a", "/", ".", ".">> }

\* process.argv.slice(2) of one invocation: a sequence of tokens.
CommandLines ==
  { <<>> }
  \cup { << Seg(c) >> :
           c \in {"new", "ai", "learn", "sync", "version", "help", "bogus"} }
  \cup { << Seg("new"), n >> : n \in Names }
  \cup { << Seg("ai"), Seg(s) >> : s \in {"prepare", "validate", "handoff"} }
  \cup { << Seg("version"), Seg("new") >> }

\* The directories a user starts the tool in: the workspace and, once it
\* exists, the directory "a" in it.
StartDirs == { Workspace, PathJoin(Workspace, <<"a">>) }

\* File contents: the generating template, the name it interpolates and the
\* time it reads from the clock (0 when it reads none).
Content(kind, name, time) == [kind |-> kind, name |-> name, time |-> time]
NoContent == Content("none", <<>>, 0)

\* A config directory in the workspace instead of $HOME.
ConfigDir_InWorkspace == JoinRel(Workspace, << Seg(".kt-cli") >>)

\* this.configDir = path.join(process.env.HOME, '.kt-cli'), HOME being set.
ConfigDir == JoinRel(Home, << Seg(".kt-cli") >>)

\* The directories ensureConfigDir creates, in order.
ConfigDirs ==
  << ConfigDir,
     JoinRel(ConfigDir, << Seg("templates") >>),
     JoinRel(ConfigDir, << Seg("protocols") >>) >>

\* path.join(__dirname, '../BestPractices/Generic')
BundlePath ==
  Resolve(InstallDir, << DotDot, Seg("BestPractices"), Seg("Generic") >>)

\* The reference documents shipped beside the tool, when they are shipped.
BundleDirs == Prefixes(JoinRel(BundlePath, << Seg("deep") >>))
BundleFiles ==
  LET f1 == JoinRel(BundlePath, << Seg("Ref.md") >>)
      f2 == JoinRel(BundlePath, << Seg("deep"), Seg("More.md") >>)
  IN  [p \in {f1, f2} |->
         IF p = f1 THEN Content("bundle", Seg("Ref.md"), 0)
         ELSE Content("bundle", Seg("More.md"), 0)]

\* ------------------------------------------------------------------------
\* State
\* ------------------------------------------------------------------------
VARIABLES
  dirs,         \* the directories of the filesystem (absolute paths)
  files,        \* the regular files: path -> content
  git,          \* repositories: root path -> [staged, commits]
  run,          \* invocations started so far; also the clock reading
  pc,           \* position of the running process
  argv,         \* process.argv.slice(2)
  cwd,          \* process.cwd()
  cwd0,         \* the working directory the process was started in
  projectName,  \* createProject's parameter
  projectPath,  \* createProject's local
  i,            \* index of the forEach in progress
  originalCwd,  \* initializeGit's local
  stack,        \* the active copyDirectory calls, innermost last
  out,          \* what the process printed, in order
  exitCode,     \* exit code of the process, -1 while it runs
  steps,        \* the steps of createProject entered, in order
  calls,        \* fs writes and subprocesses attempted by the process
  dirs0,        \* dirs when the process started
  files0,       \* files when the process started
  hist,         \* history: what the invocations so far created and wrote
  hist0,        \* hist when the process started
  other,        \* a second process, while it waits for the processor
  runner,       \* the TestRunner of a running tests/test-server.js
  home          \* process.env.HOME: a path, or undefined

fsVars == << dirs, files, git >>
procVars == << run, argv, cwd0, dirs0, files0, hist0, other, runner, home >>
vars == << dirs, files, git, run, pc, argv, cwd, cwd0, projectName,
           projectPath, i, originalCwd, stack, out, exitCode, steps, calls,
           dirs0, files0, hist, hist0, other, runner, home >>

\* An existence check that sees regular files only.
ExistsSync_FilesOnly(p) == p \in DOMAIN files

\* fs.existsSync
ExistsSync(p) == p \in dirs \/ p \in DOMAIN files

IsDirectory(p) == p \in dirs

\* The entries of directory p.
Entries(p) ==
  { q \in dirs \cup DOMAIN files : Len(q) = Len(p) + 1 /\ IsPrefix(p, q) }

\* console.log / console.error
Msg(stream, text) == [stream |-> stream, text |-> text, body |-> NoContent]
MsgBody(stream, text, body) == [stream |-> stream, text |-> text, body |-> body]

Call(op, path, ok) == [op |-> op, path |-> path, ok |-> ok]

\* process.argv.slice(2)[n - 1]
Arg(n) == IF n <= Len(argv) THEN argv[n] ELSE Undefined

\* A test for undefined that lets the empty string through.
Falsy_UndefinedOnly(x) == x = Undefined

\* JavaScript's !x for a string or undefined.
Falsy(x) == x = Undefined \/ x = <<>>

\* What belongs to one process: its position, its arguments, its working
\* directory, its locals, its output.
Process(pc_, argv_, cwd_) ==
  [pc |-> pc_, argv |-> argv_, cwd |-> cwd_, cwd0 |-> cwd_,
   projectName |-> Undefined, projectPath |-> <<>>, i |-> 0,
   originalCwd |-> <<>>, stack |-> <<>>, out |-> <<>>, exitCode |-> -1,
   steps |-> <<>>, calls |-> <<>>]

\* No second process.
NoProcess == Process("done", <<>>, Workspace)

\* new TestRunner(): no tests, all counters 0. `ran` lists the positions of
\* the tests run so far.
NewRunner ==
  [pc |-> "registering", tests |-> <<>>, next |-> 1,
   passed |-> 0, failed |-> 0, total |-> 0,
   ran |-> <<>>, out |-> <<>>, exitCode |-> -1]

\* No test file is running.
NoRunner == [NewRunner EXCEPT !.pc = "none"]

Init ==
  /\ \E bundled \in BOOLEAN :
       /\ dirs = Prefixes(Workspace) \cup Prefixes(Home) \cup Prefixes(InstallDir)
                 \cup (IF bundled THEN BundleDirs ELSE {})
       /\ files = IF bundled THEN BundleFiles ELSE << >>
  /\ git = << >>
  /\ run = 0
  /\ pc = "idle"
  /\ argv = <<>>
  /\ cwd = Workspace
  /\ cwd0 = Workspace
  /\ projectName = Undefined
  /\ projectPath = <<>>
  /\ i = 0
  /\ originalCwd = <<>>
  /\ stack = <<>>
  /\ out = <<>>
  /\ exitCode = -1
  /\ steps = <<>>
  /\ calls = <<>>
  /\ dirs0 = dirs
  /\ files0 = files
  /\ hist = [created |-> {}, wrote |-> << >>, succeeded |-> {}]
  /\ hist0 = hist
  /\ other = NoProcess
  /\ runner = NoRunner
  /\ home = Home

\* Whether command line `line`, started in directory d, is a `new` that
\* passes validation.
WouldCreate(line, d) ==
  /\ Len(line) >= 2
  /\ line[1] = Seg("new")
  /\ line[2] # <<>>
  /\ PathJoin(d, line[2]) \notin dirs \cup DOMAIN files

\* A user starts the tool: a fresh process in an existing directory.
Start ==
  /\ pc \in {"idle", "done"}
  /\ run < MaxRuns
  /\ \E line \in CommandLines, d \in StartDirs \cap dirs :
       /\ WouldCreate(line, d) => Cardinality(hist.created) < MaxProjects
       /\ argv' = line
       /\ cwd' = d
       /\ cwd0' = d
  /\ run' = run + 1
  /\ pc' = "ctor"
  /\ projectName' = Undefined
  /\ projectPath' = <<>>
  /\ i' = 0
  /\ originalCwd' = <<>>
  /\ stack' = <<>>
  /\ out' = <<>>
  /\ exitCode' = -1
  /\ steps' = <<>>
  /\ calls' = <<>>
  /\ dirs0' = dirs
  /\ files0' = files
  /\ hist0' = hist
  /\ UNCHANGED << fsVars, hist, other, runner, home >>

\* The process ends: run() resolved (code 0), or an error reached the catch
\* of the entry point or escaped the constructor (code 1).
Exit(code, printed) ==
  /\ pc' = "done"
  /\ exitCode' = code
  /\ out' = out \o printed

\* A catch that prints the error and forgets process.exit(1).
TopLevelCatch_NoExit == Exit(0, << Msg("error", "Error:") >>)

\* cli.run().catch(error => { console.error(...); process.exit(1) })
TopLevelCatch == Exit(1, << Msg("error", "Error:") >>)

\* An exception of the constructor that ends in the catch of cli.run().
UncaughtException_Caught == Exit(1, << Msg("error", "Error:") >>)

\* An exception thrown by `new KnowledgeTransferCLI()`: no handler is
\* installed yet, Node prints the stack and exits with code 1.
UncaughtException == Exit(1, << Msg("error", "uncaught") >>)

\* constructor: path.join(process.env.HOME, '.kt-cli') throws a TypeError
\* when HOME is not set; otherwise ensureConfigDir and its existence check.
EnsureConfigDir ==
  /\ pc = "ctor"
  /\ IF home = NoHome
       THEN /\ UncaughtException
            /\ UNCHANGED i
       ELSE /\ IF ExistsSync(ConfigDir)
                 THEN pc' = "run" /\ i' = 0
                 ELSE pc' = "configMkdir" /\ i' = 1
            /\ UNCHANGED << out, exitCode >>
  /\ UNCHANGED << fsVars, procVars, cwd, projectName, projectPath,
                  originalCwd, stack, steps, calls, hist >>

\* ensureConfigDir: the three mkdirSync calls.
ConfigMkdir ==
  /\ pc = "configMkdir"
  /\ \E ok \in BOOLEAN :
       /\ calls' = Append(calls, Call("mkdir", ConfigDirs[i], ok))
       /\ IF ok
            THEN /\ dirs' = dirs \cup Prefixes(ConfigDirs[i])
                 /\ IF i < Len(ConfigDirs)
                      THEN pc' = "configMkdir" /\ i' = i + 1
                      ELSE pc' = "run" /\ i' = 0
                 /\ UNCHANGED << out, exitCode >>
            ELSE /\ UncaughtException
                 /\ UNCHANGED << dirs, i >>
  /\ UNCHANGED << files, git, procVars, cwd, projectName, projectPath,
                  originalCwd, stack, steps, hist >>

\* run() whose `version` case has no break and falls into the help.
Run_FallThrough ==
  /\ pc = "run"
  /\ LET command == Arg(1)
     IN  CASE command = Seg("new") ->
                /\ pc' = "validate"
                /\ projectName' = Arg(2)
                /\ UNCHANGED << out, exitCode >>
           [] command = Seg("ai") ->
                /\ pc' = "ai"
                /\ UNCHANGED << projectName, out, exitCode >>
           [] command \in { Seg("learn"), Seg("sync") } ->
                /\ TopLevelCatch
                /\ UNCHANGED projectName
           [] command = Seg("version") ->
                /\ Exit(0, << Msg("log", "kt-cli v"), Msg("log", "help") >>)
                /\ UNCHANGED projectName
           [] OTHER ->
                /\ Exit(0, << Msg("log", "help") >>)
                /\ UNCHANGED projectName
  /\ UNCHANGED << fsVars, procVars, cwd, projectPath, i, originalCwd, stack,
                  steps, calls, hist >>

\* run(): the switch on args[0].
Run ==
  /\ pc = "run"
  /\ LET command == Arg(1)
     IN  CASE command = Seg("new") ->
                /\ pc' = "validate"
                /\ projectName' = Arg(2)
                /\ UNCHANGED << out, exitCode >>
           [] command = Seg("ai") ->
                /\ pc' = "ai"
                /\ UNCHANGED << projectName, out, exitCode >>
           [] command \in { Seg("learn"), Seg("sync") } ->
                \* this.handleLearnCommand and this.syncProtocols are not
                \* defined: the call throws a TypeError inside run().
                /\ TopLevelCatch
                /\ UNCHANGED projectName
           [] command = Seg("version") ->
                /\ Exit(0, << Msg("log", "kt-cli v") >>)
                /\ UNCHANGED projectName
           [] OTHER ->
                /\ Exit(0, << Msg("log", "help") >>)
                /\ UNCHANGED projectName
  /\ UNCHANGED << fsVars, procVars, cwd, projectPath, i, originalCwd, stack,
                  steps, calls, hist >>

\* createProject that takes up an existing project root in which the
\* project-dna.json is missing.
Validate_Resume ==
  /\ pc = "validate"
  /\ steps' = Append(steps, "Validate")
  /\ IF Falsy(projectName)
       THEN /\ Exit(0, << Msg("error", "Project name required") >>)
            /\ UNCHANGED projectPath
       ELSE /\ projectPath' = PathJoin(cwd, projectName)
            /\ IF /\ ExistsSync(projectPath')
                  /\ ExistsSync(JoinRel(projectPath', << Seg(".kt-context"), Seg("project-dna.json") >>))
                 THEN Exit(0, << Msg("error", "already exists") >>)
                 ELSE /\ pc' = "mkroot"
                      /\ out' = Append(out, Msg("log", "Creating AI-ready project"))
                      /\ UNCHANGED exitCode
  /\ UNCHANGED << fsVars, procVars, cwd, projectName, i, originalCwd, stack,
                  calls, hist >>

\* createProject without the `return` after the 'already exists' error.
Validate_NoReturn ==
  /\ pc = "validate"
  /\ steps' = Append(steps, "Validate")
  /\ IF Falsy(projectName)
       THEN /\ Exit(0, << Msg("error", "Project name required") >>)
            /\ UNCHANGED projectPath
       ELSE /\ projectPath' = PathJoin(cwd, projectName)
            /\ pc' = "mkroot"
            /\ out' = IF ExistsSync(projectPath')
                        THEN out \o << Msg("error", "already exists"),
                                       Msg("log", "Creating AI-ready project") >>
                        ELSE Append(out, Msg("log", "Creating AI-ready project"))
            /\ UNCHANGED exitCode
  /\ UNCHANGED << fsVars, procVars, cwd, projectName, i, originalCwd, stack,
                  calls, hist >>

\* createProject: the two checks before anything is written.
Validate ==
  /\ pc = "validate"
  /\ steps' = Append(steps, "Validate")
  /\ IF Falsy(projectName)
       THEN /\ Exit(0, << Msg("error", "Project name required") >>)
            /\ UNCHANGED projectPath
       ELSE /\ projectPath' = PathJoin(cwd, projectName)
            /\ IF ExistsSync(projectPath')
                 THEN Exit(0, << Msg("error", "already exists") >>)
                 ELSE /\ pc' = "mkroot"
                      /\ out' = Append(out, Msg("log", "Creating AI-ready project"))
                      /\ UNCHANGED exitCode
  /\ UNCHANGED << fsVars, procVars, cwd, projectName, i, originalCwd, stack,
                  calls, hist >>

\* DirectorySpec with '.kt-context' left out.
DirectorySpec_NoContextDir ==
  << << Seg("src") >>, << Seg("tests") >>, << Seg("docs") >>,
     << Seg("public") >>, << Seg("data") >>,
     << Seg("BestPractices"), Seg("Generic") >>,
     << Seg("BestPractices"), Seg("ProjectSpecific") >> >>

\* DirectorySpec with 'public' left out.
DirectorySpec_NoPublic ==
  << << Seg("src") >>,
     << Seg("tests") >>,
     << Seg("docs") >>,
     << Seg("data") >>,
     << Seg("BestPractices"), Seg("Generic") >>,
     << Seg("BestPractices"), Seg("ProjectSpecific") >>,
     << Seg(".kt-context") >> >>

\* createProjectStructure: const dirs = [...]
DirectorySpec ==
  << << Seg("src") >>,
     << Seg("tests") >>,
     << Seg("docs") >>,
     << Seg("public") >>,
     << Seg("data") >>,
     << Seg("BestPractices"), Seg("Generic") >>,
     << Seg("BestPractices"), Seg("ProjectSpecific") >>,
     << Seg(".kt-context") >> >>

\* The generate* templates.
generatePackageJson(name) == Content("package.json", name, 0)
generateReadme(name) == Content("README.md", name, 0)
generateGitignore == Content(".gitignore", <<>>, 0)
generateServerTemplate == Content("server.js", Basename(cwd), run)
generateTestTemplate == Content("test-server.js", <<>>, 0)
generateAPIDocsTemplate == Content("API_DOCUMENTATION.md", <<>>, 0)

\* createProjectStructure: const files = {...}, in insertion order.
FileSpec(path) ==
  << [file |-> << Seg("package.json") >>,
      content |-> generatePackageJson(Basename(path))],
     [file |-> << Seg("README.md") >>,
      content |-> generateReadme(Basename(path))],
     [file |-> << Seg(".gitignore") >>, content |-> generateGitignore],
     [file |-> << Seg("src"), Seg("server.js") >>,
      content |-> generateServerTemplate],
     [file |-> << Seg("tests"), Seg("test-server.js") >>,
      content |-> generateTestTemplate],
     [file |-> << Seg("docs"), Seg("API_DOCUMENTATION.md") >>,
      content |-> generateAPIDocsTemplate],
     [file |-> << Seg("data"), Seg("README.md") >>,
      content |-> Content("data/README.md", <<>>, 0)] >>

\* Whether fs.mkdirSync(p, { recursive: true }) can succeed: no ancestor of
\* p, nor p, is a regular file, and p is not too long (ENAMETOOLONG).
Makable(p) == Len(p) <= MaxPathLen /\ \A q \in Prefixes(p) : q \notin DOMAIN files

\* fs.mkdirSync(p, { recursive: true }) that succeeded.
MkdirRecursive(p) == dirs \cup Prefixes(p)

\* Whether fs.writeFileSync(p, _) / fs.copyFileSync(_, p) can succeed: the
\* parent must be a directory, p must not be one, and p is not too long.
Writable(p) == Len(p) <= MaxPathLen /\ Dirname(p) \in dirs /\ p \notin dirs

\* A UTF-16 code unit that is half of a surrogate pair, and U+FFFD.
LoneSurrogate == "\\uD800"
ReplacementChar == "\\uFFFD"

\* Encoding a string as UTF-8 (the default of writeFileSync): a lone
\* surrogate becomes U+FFFD, every other symbol keeps its value.
Utf8Encode(str) ==
  [k \in DOMAIN str |-> IF str[k] = LoneSurrogate THEN ReplacementChar ELSE str[k]]

\* Decoding well-formed UTF-8.
Utf8Decode(bytes) == bytes

\* fs.writeFileSync(p, content) that succeeded: the file holds the bytes of
\* the string.
WriteFile(p, content) ==
  [q \in DOMAIN files \cup {p} |->
     IF q = p THEN [content EXCEPT !.name = Utf8Encode(@)] ELSE files[q]]

\* A copy that creates the destination and leaves it empty.
CopyFileTo_Empty(src, p) ==
  [q \in DOMAIN files \cup {p} |-> IF q = p THEN NoContent ELSE files[q]]

\* fs.copyFileSync(src, p) that succeeded: the bytes of src.
CopyFileTo(src, p) ==
  [q \in DOMAIN files \cup {p} |-> IF q = p THEN files[src] ELSE files[q]]

\* createProjectStructure: fs.mkdirSync(projectPath, { recursive: true })
MkRoot ==
  /\ pc = "mkroot"
  /\ steps' = Append(steps, "Scaffold")
  /\ \E ok \in (IF Makable(projectPath) THEN BOOLEAN ELSE {FALSE}) :
       /\ calls' = Append(calls, Call("mkdir", projectPath, ok))
       /\ IF ok
            THEN /\ dirs' = MkdirRecursive(projectPath)
                 /\ hist' = [hist EXCEPT !.created = @ \cup { << cwd0, projectName >> }]
                 /\ pc' = "mkdirs"
                 /\ i' = 1
                 /\ UNCHANGED << out, exitCode >>
            ELSE /\ TopLevelCatch
                 /\ UNCHANGED << dirs, hist, i >>
  /\ UNCHANGED << files, git, procVars, cwd, projectName, projectPath,
                  originalCwd, stack >>

\* createProjectStructure: dirs.forEach(dir => fs.mkdirSync(...))
MkDirs ==
  /\ pc = "mkdirs"
  /\ LET p == JoinRel(projectPath, DirectorySpec[i])
     IN  \E ok \in (IF Makable(p) THEN BOOLEAN ELSE {FALSE}) :
           /\ calls' = Append(calls, Call("mkdir", p, ok))
           /\ IF ok
                THEN /\ dirs' = MkdirRecursive(p)
                     /\ IF i < Len(DirectorySpec)
                          THEN pc' = "mkdirs" /\ i' = i + 1
                          ELSE pc' = "writefiles" /\ i' = 1
                     /\ UNCHANGED << out, exitCode >>
                ELSE /\ TopLevelCatch
                     /\ UNCHANGED << dirs, i >>
  /\ UNCHANGED << files, git, procVars, cwd, projectName, projectPath,
                  originalCwd, stack, steps, hist >>

\* A forEach that tries a failed writeFileSync again.
WriteFiles_Retry ==
  /\ pc = "writefiles"
  /\ LET spec == FileSpec(projectPath)
         p == JoinRel(projectPath, spec[i].file)
     IN  \E ok \in (IF Writable(p) THEN BOOLEAN ELSE {FALSE}) :
           /\ calls' = Append(calls, Call("write", p, ok))
           /\ IF ok
                THEN /\ files' = WriteFile(p, spec[i].content)
                     /\ IF i < Len(spec)
                          THEN pc' = "writefiles" /\ i' = i + 1
                          ELSE pc' = "protocols" /\ i' = 0
                     /\ UNCHANGED << out, exitCode >>
                ELSE /\ IF Len(calls) < 20 THEN UNCHANGED << pc, out, exitCode >>
                                           ELSE TopLevelCatch
                     /\ UNCHANGED << files, i >>
  /\ UNCHANGED << dirs, git, procVars, cwd, projectName, projectPath,
                  originalCwd, stack, steps, hist >>

\* createProjectStructure: Object.entries(files).forEach(... writeFileSync)
WriteFiles ==
  /\ pc = "writefiles"
  /\ LET spec == FileSpec(projectPath)
         p == JoinRel(projectPath, spec[i].file)
     IN  \E ok \in (IF Writable(p) THEN BOOLEAN ELSE {FALSE}) :
           /\ calls' = Append(calls, Call("write", p, ok))
           /\ IF ok
                THEN /\ files' = WriteFile(p, spec[i].content)
                     /\ IF i < Len(spec)
                          THEN pc' = "writefiles" /\ i' = i + 1
                          ELSE pc' = "protocols" /\ i' = 0
                     /\ UNCHANGED << out, exitCode >>
                ELSE /\ TopLevelCatch
                     /\ UNCHANGED << files, i >>
  /\ UNCHANGED << dirs, git, procVars, cwd, projectName, projectPath,
                  originalCwd, stack, steps, hist >>

\* setupProtocols that never looks for the bundled documents.
SetupProtocols_AlwaysBasic ==
  /\ pc = "protocols"
  /\ steps' = Append(steps, "Protocols")
  /\ out' = Append(out, Msg("log", "Setting up Knowledge Transfer Protocols"))
  /\ pc' = "basic"
  /\ UNCHANGED << fsVars, procVars, cwd, projectName, projectPath, i,
                  originalCwd, exitCode, calls, hist, stack >>

\* setupProtocols: the choice between the bundled documents and the
\* built-in ones.
SetupProtocols ==
  /\ pc = "protocols"
  /\ steps' = Append(steps, "Protocols")
  /\ out' = Append(out, Msg("log", "Setting up Knowledge Transfer Protocols"))
  /\ LET sourcePath == BundlePath
         targetPath == JoinRel(projectPath, << Seg("BestPractices"), Seg("Generic") >>)
     IN  IF ExistsSync(sourcePath)
           THEN /\ pc' = "copy"
                /\ stack' = << [src |-> sourcePath, dest |-> targetPath,
                                items |-> <<>>, entered |-> FALSE] >>
           ELSE /\ pc' = "basic"
                /\ UNCHANGED stack
  /\ UNCHANGED << fsVars, procVars, cwd, projectName, projectPath, i,
                  originalCwd, exitCode, calls, hist >>

\* One listing of a set of entries.
RECURSIVE SomeOrder(_)
SomeOrder(S) ==
  IF S = {} THEN <<>>
  ELSE LET x == CHOOSE y \in S : TRUE
       IN  << x >> \o SomeOrder(S \ {x})

Reverse(s) == [k \in DOMAIN s |-> s[Len(s) + 1 - k]]

\* The orders in which fs.readdirSync may list a set of entries: every
\* order for a small directory, one order and its reverse for a larger one.
Orderings(S) ==
  IF Cardinality(S) <= MaxShuffled
    THEN { s \in [1..Cardinality(S) -> S] :
             \A m, n \in 1..Cardinality(S) : m # n => s[m] # s[n] }
    ELSE { SomeOrder(S), Reverse(SomeOrder(S)) }

Top == stack[Len(stack)]
Pop == SubSeq(stack, 1, Len(stack) - 1)

\* copyDirectory: create dest if it is missing, then list src.
CopyEnter ==
  /\ pc = "copy"
  /\ ~Top.entered
  /\ LET missing == ~ExistsSync(Top.dest)
     IN  \E ok \in (IF missing /\ ~Makable(Top.dest) THEN {FALSE} ELSE BOOLEAN) :
           /\ missing \/ ok
           /\ calls' = IF missing
                         THEN Append(calls, Call("mkdir", Top.dest, ok))
                         ELSE calls
           /\ IF ok
                THEN /\ dirs' = IF missing THEN MkdirRecursive(Top.dest) ELSE dirs
                     /\ \E order \in Orderings({ Basename(q) : q \in Entries(Top.src) }) :
                          stack' = Append(Pop, [Top EXCEPT !.items = order,
                                                           !.entered = TRUE])
                     /\ UNCHANGED << pc, out, exitCode >>
                ELSE /\ TopLevelCatch
                     /\ UNCHANGED << dirs, stack >>
  /\ UNCHANGED << files, git, procVars, cwd, projectName, projectPath, i,
                  originalCwd, steps, hist >>

\* copyDirectory: an item that is a directory starts a nested call.
CopyDescend ==
  /\ pc = "copy"
  /\ Top.entered
  /\ Top.items # <<>>
  /\ LET item == Head(Top.items)
         srcPath == Append(Top.src, item)
         destPath == Append(Top.dest, item)
     IN  /\ IsDirectory(srcPath)
         /\ stack' = Append(Append(Pop, [Top EXCEPT !.items = Tail(Top.items)]),
                            [src |-> srcPath, dest |-> destPath,
                             items |-> <<>>, entered |-> FALSE])
  /\ UNCHANGED << fsVars, procVars, pc, cwd, projectName, projectPath, i,
                  originalCwd, out, exitCode, steps, calls, hist >>

\* copyDirectory: an item that is a file is copied with fs.copyFileSync.
CopyFile ==
  /\ pc = "copy"
  /\ Top.entered
  /\ Top.items # <<>>
  /\ LET item == Head(Top.items)
         srcPath == Append(Top.src, item)
         destPath == Append(Top.dest, item)
     IN  /\ ~IsDirectory(srcPath)
         /\ \E ok \in (IF Writable(destPath) THEN BOOLEAN ELSE {FALSE}) :
              /\ calls' = Append(calls, Call("copy", destPath, ok))
              /\ IF ok
                   THEN /\ files' = CopyFileTo(srcPath, destPath)
                        /\ stack' = Append(Pop, [Top EXCEPT !.items = Tail(Top.items)])
                        /\ UNCHANGED << pc, out, exitCode >>
                   ELSE /\ TopLevelCatch
                        /\ UNCHANGED << files, stack >>
  /\ UNCHANGED << dirs, git, procVars, cwd, projectName, projectPath, i,
                  originalCwd, steps, hist >>

\* copyDirectory: the forEach is over, the call returns.
CopyReturn ==
  /\ pc = "copy"
  /\ Top.entered
  /\ Top.items = <<>>
  /\ stack' = Pop
  /\ pc' = IF Len(stack) = 1 THEN "context" ELSE "copy"
  /\ i' = 0
  /\ UNCHANGED << fsVars, procVars, cwd, projectName, projectPath,
                  originalCwd, out, exitCode, steps, calls, hist >>

\* createBasicProtocols without its last document.
BasicProtocols_Three ==
  << Seg("CodeOrganizationFramework.md"),
     Seg("GitWorkflowPatterns.md"),
     Seg("DocumentationFramework.md") >>

\* createBasicProtocols: the four documents, in the order they are written.
BasicProtocols ==
  << Seg("CodeOrganizationFramework.md"),
     Seg("GitWorkflowPatterns.md"),
     Seg("DocumentationFramework.md"),
     Seg("ProtocolEvolutionFramework.md") >>

\* createBasicProtocols: create targetPath if it is missing (i = 0), then
\* the four writeFileSync calls (i = 1..4).
CreateBasicProtocols ==
  /\ pc = "basic"
  /\ LET targetPath == JoinRel(projectPath, << Seg("BestPractices"), Seg("Generic") >>)
         missing == ~ExistsSync(targetPath)
         p == IF i = 0 THEN targetPath ELSE Append(targetPath, BasicProtocols[i])
         can == IF i = 0 THEN Makable(p) ELSE Writable(p)
     IN  \E ok \in (IF can THEN BOOLEAN ELSE {FALSE}) :
           /\ (i = 0 /\ ~missing) => ok
           /\ calls' = IF i = 0 /\ ~missing THEN calls
                       ELSE Append(calls, Call(IF i = 0 THEN "mkdir" ELSE "write", p, ok))
           /\ IF ok
                THEN /\ dirs' = IF i = 0 /\ missing THEN MkdirRecursive(p) ELSE dirs
                     /\ files' = IF i = 0 THEN files
                                 ELSE WriteFile(p, Content("protocol", BasicProtocols[i], 0))
                     /\ IF i < Len(BasicProtocols)
                          THEN /\ i' = i + 1
                               /\ UNCHANGED << pc, out >>
                          ELSE /\ i' = 0
                               /\ pc' = "context"
                               /\ out' = Append(out, Msg("log", "Created basic Knowledge Transfer Protocols"))
                     /\ UNCHANGED exitCode
                ELSE /\ TopLevelCatch
                     /\ UNCHANGED << dirs, files, i >>
  /\ UNCHANGED << git, procVars, cwd, projectName, projectPath, originalCwd,
                  stack, steps, hist >>

\* generateAIContext: the template literal and the projectDNA object.
AIContext(name) == Content("ai-context.md", name, run)
ProjectDNA(name) == Content("project-dna.json", name, run)

\* A context directory that prepareAIContext does not look in.
ContextDirOf_Docs(path) == JoinRel(path, << Seg("docs") >>)

\* generateAIContext: const contextDir = path.join(projectPath, '.kt-context')
ContextDirOf(path) == JoinRel(path, << Seg(".kt-context") >>)

\* f with key k set to value v.
Record(f, k, v) == [q \in DOMAIN f \cup {k} |-> IF q = k THEN v ELSE f[q]]

\* generateAIContext: create the context directory if it is missing (i = 0),
\* write ai-context.md (i = 1) and project-dna.json (i = 2).
GenerateAIContext ==
  /\ pc = "context"
  /\ LET contextDir == ContextDirOf(projectPath)
         missing == ~ExistsSync(contextDir)
         p == CASE i = 0 -> contextDir
                [] i = 1 -> JoinRel(contextDir, << Seg("ai-context.md") >>)
                [] OTHER -> JoinRel(projectPath, << Seg(".kt-context"), Seg("project-dna.json") >>)
         can == IF i = 0 THEN Makable(p) ELSE Writable(p)
     IN  \E ok \in (IF can THEN BOOLEAN ELSE {FALSE}) :
           /\ (i = 0 /\ ~missing) => ok
           /\ steps' = IF i = 0 THEN Append(steps, "Context") ELSE steps
           /\ calls' = IF i = 0 /\ ~missing THEN calls
                       ELSE Append(calls, Call(IF i = 0 THEN "mkdir" ELSE "write", p, ok))
           /\ IF ok
                THEN /\ dirs' = IF i = 0 /\ missing THEN MkdirRecursive(p) ELSE dirs
                     /\ files' = CASE i = 0 -> files
                                   [] i = 1 -> WriteFile(p, AIContext(projectName))
                                   [] OTHER -> WriteFile(p, ProjectDNA(projectName))
                     /\ hist' = IF i = 1
                                  THEN [hist EXCEPT !.wrote = Record(@, projectPath, AIContext(projectName))]
                                  ELSE hist
                     /\ IF i < 2
                          THEN /\ i' = i + 1
                               /\ pc' = pc
                               /\ out' = IF i = 0
                                           THEN Append(out, Msg("log", "Generating comprehensive AI Assistant context"))
                                           ELSE out
                          ELSE /\ i' = 0
                               /\ pc' = "git"
                               /\ out' = Append(out, Msg("log", "Complete AI context generated"))
                     /\ UNCHANGED exitCode
                ELSE /\ Exit(1, (IF i = 0
                                   THEN << Msg("log", "Generating comprehensive AI Assistant context") >>
                                   ELSE <<>>)
                                \o << Msg("error", "Error:") >>)
                     /\ UNCHANGED << dirs, files, i, hist >>
  /\ UNCHANGED << git, procVars, cwd, projectName, projectPath, originalCwd,
                  stack >>

\* The commands with `git add .` before `git init`.
GitCommands_AddFirst == << "git add .", "git init", "git commit" >>

\* initializeGit: the three execSync calls, in order.
GitCommands == << "git init", "git add .", "git commit" >>

\* initializeGit: remember the working directory and enter the project.
InitializeGit ==
  /\ pc = "git"
  /\ steps' = Append(steps, "VersionControl")
  /\ originalCwd' = cwd
  /\ IF IsDirectory(projectPath)
       THEN /\ cwd' = projectPath
            /\ pc' = "exec"
            /\ i' = 1
            /\ UNCHANGED << out, exitCode >>
       ELSE /\ TopLevelCatch
            /\ UNCHANGED << cwd, i >>
  /\ UNCHANGED << fsVars, procVars, projectName, projectPath, stack, calls,
                  hist >>

\* What a git command that succeeded in directory d leaves behind.
GitEffect(command, d) ==
  LET old == IF d \in DOMAIN git THEN git[d] ELSE [staged |-> FALSE, commits |-> 0]
      new == CASE command = "git init" -> old
               [] command = "git add ." -> [old EXCEPT !.staged = TRUE]
               [] OTHER -> [staged |-> FALSE, commits |-> old.commits + 1]
  IN  [q \in DOMAIN git \cup {d} |-> IF q = d THEN new ELSE git[q]]

\* A catch clause that rethrows.
GitCatch_Rethrow == TopLevelCatch

\* A catch clause after which the working directory is not restored.
GitCatch_NoFinally ==
  /\ pc' = "report"
  /\ out' = Append(out, Msg("log", "Git initialization skipped"))
  /\ UNCHANGED exitCode

\* initializeGit: catch (error) { console.log(...) }, then on to finally.
GitCatch ==
  /\ pc' = "finally"
  /\ out' = Append(out, Msg("log", "Git initialization skipped"))
  /\ UNCHANGED exitCode

\* initializeGit: the try block; the first failing command ends it in the
\* catch clause.
GitExec ==
  /\ pc = "exec"
  /\ \E ok \in BOOLEAN :
       /\ calls' = Append(calls, Call(GitCommands[i], cwd, ok))
       /\ IF ok
            THEN /\ git' = GitEffect(GitCommands[i], cwd)
                 /\ dirs' = dirs \cup { JoinRel(cwd, << Seg(".git") >>) }
                 /\ IF i < Len(GitCommands)
                      THEN /\ i' = i + 1
                           /\ UNCHANGED << pc, out >>
                      ELSE /\ i' = 0
                           /\ pc' = "finally"
                           /\ out' = Append(out, Msg("log", "Git repository initialized"))
                 /\ UNCHANGED exitCode
            ELSE /\ i' = 0
                 /\ GitCatch
                 /\ UNCHANGED << git, dirs >>
  /\ UNCHANGED << files, procVars, cwd, projectName, projectPath,
                  originalCwd, stack, steps, hist >>

\* initializeGit: finally { process.chdir(originalCwd) }
GitFinally ==
  /\ pc = "finally"
  /\ IF IsDirectory(originalCwd)
       THEN /\ cwd' = originalCwd
            /\ pc' = "report"
            /\ UNCHANGED << out, exitCode >>
       ELSE /\ TopLevelCatch
            /\ UNCHANGED cwd
  /\ UNCHANGED << fsVars, procVars, projectName, projectPath, i, originalCwd,
                  stack, steps, calls, hist >>

\* createProject: the closing messages; run() resolves.
Report ==
  /\ pc = "report"
  /\ steps' = Append(steps, "Report")
  /\ Exit(0, << Msg("log", "created successfully"), Msg("log", "Location"),
                Msg("log", "AI Context"), Msg("log", "Next steps") >>)
  /\ hist' = [hist EXCEPT !.succeeded = @ \cup { projectPath }]
  /\ UNCHANGED << fsVars, procVars, cwd, projectName, projectPath, i,
                  originalCwd, stack, calls >>

\* handleAICommand: the switch on the token after `ai`.
HandleAICommand ==
  /\ pc = "ai"
  /\ LET subcommand == Arg(2)
     IN  CASE subcommand = Seg("prepare") ->
                /\ pc' = "prepare"
                /\ UNCHANGED << out, exitCode >>
           [] subcommand \in { Seg("validate"), Seg("handoff") } ->
                \* this.validateAIUnderstanding and
                \* this.generateHandoffPackage are not defined.
                TopLevelCatch
           [] OTHER ->
                Exit(0, << Msg("log", "AI Commands:") >>)
  /\ UNCHANGED << fsVars, procVars, cwd, projectName, projectPath, i,
                  originalCwd, stack, steps, calls, hist >>

\* A context path that names another file of the project.
ContextPath_PackageJson == JoinRel(cwd, << Seg("package.json") >>)

\* prepareAIContext: const contextPath = '.kt-context/ai-context.md',
\* resolved against the working directory.
ContextPath == JoinRel(cwd, << Seg(".kt-context"), Seg("ai-context.md") >>)

\* fs.readFileSync(p, 'utf8') of an existing regular file.
ReadFile(p) == [files[p] EXCEPT !.name = Utf8Decode(@)]

\* prepareAIContext that stamps the context document with the time it was
\* last read.
PrepareAIContext_Touch ==
  /\ pc = "prepare"
  /\ IF ~ExistsSync(ContextPath)
       THEN /\ Exit(0, << Msg("error", "No AI context found") >>)
            /\ UNCHANGED files
       ELSE /\ Exit(0, << Msg("log", "Preparing AI Assistant context"),
                          Msg("log", "banner"),
                          MsgBody("log", "content", ReadFile(ContextPath)),
                          Msg("log", "banner"),
                          Msg("log", "Copy the above text") >>)
            /\ files' = [files EXCEPT ![ContextPath].time = run + 1]
  /\ UNCHANGED << dirs, git, procVars, cwd, projectName, projectPath, i,
                  originalCwd, stack, steps, calls, hist >>

\* prepareAIContext
PrepareAIContext ==
  /\ pc = "prepare"
  /\ IF ~ExistsSync(ContextPath)
       THEN Exit(0, << Msg("error", "No AI context found") >>)
       ELSE IF IsDirectory(ContextPath)
         THEN \* readFileSync throws EISDIR after the first banner is out.
              Exit(1, << Msg("log", "Preparing AI Assistant context"),
                         Msg("log", "banner"),
                         Msg("error", "Error:") >>)
         ELSE Exit(0, << Msg("log", "Preparing AI Assistant context"),
                         Msg("log", "banner"),
                         MsgBody("log", "content", ReadFile(ContextPath)),
                         Msg("log", "banner"),
                         Msg("log", "Copy the above text") >>)
  /\ UNCHANGED << fsVars, procVars, cwd, projectName, projectPath, i,
                  originalCwd, stack, steps, calls, hist >>

Next ==
  \/ Start
  \/ EnsureConfigDir
  \/ ConfigMkdir
  \/ Run
  \/ Validate
  \/ MkRoot
  \/ MkDirs
  \/ WriteFiles
  \/ SetupProtocols
  \/ CopyEnter
  \/ CopyDescend
  \/ CopyFile
  \/ CopyReturn
  \/ CreateBasicProtocols
  \/ GenerateAIContext
  \/ InitializeGit
  \/ GitExec
  \/ GitFinally
  \/ Report
  \/ HandleAICommand
  \/ PrepareAIContext

Spec == Init /\ [][Next]_vars

\* ------------------------------------------------------------------------
\* With or without $HOME
\* ------------------------------------------------------------------------
\* As Init, in a session whose environment may lack HOME.
InitEnv ==
  /\ \E bundled \in BOOLEAN :
       /\ dirs = Prefixes(Workspace) \cup Prefixes(Home) \cup Prefixes(InstallDir)
                 \cup (IF bundled THEN BundleDirs ELSE {})
       /\ files = IF bundled THEN BundleFiles ELSE << >>
  /\ git = << >>
  /\ run = 0
  /\ pc = "idle"
  /\ argv = <<>>
  /\ cwd = Workspace
  /\ cwd0 = Workspace
  /\ projectName = Undefined
  /\ projectPath = <<>>
  /\ i = 0
  /\ originalCwd = <<>>
  /\ stack = <<>>
  /\ out = <<>>
  /\ exitCode = -1
  /\ steps = <<>>
  /\ calls = <<>>
  /\ dirs0 = dirs
  /\ files0 = files
  /\ hist = [created |-> {}, wrote |-> << >>, succeeded |-> {}]
  /\ hist0 = hist
  /\ other = NoProcess
  /\ runner = NoRunner
  /\ home \in { Home, NoHome }

SpecEnv == InitEnv /\ [][Next]_vars

\* ------------------------------------------------------------------------
\* Two processes at once
\* ------------------------------------------------------------------------
\* The command line both processes are started with.
RaceLine == << Seg("new"), <<"a">> >>

\* `new a` is started twice in the workspace at the same time: both
\* processes exist and neither has run its constructor.
InitRace ==
  /\ \E bundled \in BOOLEAN :
       /\ dirs = Prefixes(Workspace) \cup Prefixes(Home) \cup Prefixes(InstallDir)
                 \cup (IF bundled THEN BundleDirs ELSE {})
       /\ files = IF bundled THEN BundleFiles ELSE << >>
  /\ git = << >>
  /\ run = 1
  /\ pc = "ctor"
  /\ argv = RaceLine
  /\ cwd = Workspace
  /\ cwd0 = Workspace
  /\ projectName = Undefined
  /\ projectPath = <<>>
  /\ i = 0
  /\ originalCwd = <<>>
  /\ stack = <<>>
  /\ out = <<>>
  /\ exitCode = -1
  /\ steps = <<>>
  /\ calls = <<>>
  /\ dirs0 = dirs
  /\ files0 = files
  /\ hist = [created |-> {}, wrote |-> << >>, succeeded |-> {}]
  /\ hist0 = hist
  /\ other = Process("ctor", RaceLine, Workspace)
  /\ runner = NoRunner
  /\ home = Home

\* The operating system takes the processor from the running process and
\* gives it to the waiting one.
Switch ==
  /\ other.pc # "done"
  /\ other' = [pc |-> pc, argv |-> argv, cwd |-> cwd, cwd0 |-> cwd0,
               projectName |-> projectName, projectPath |-> projectPath,
               i |-> i, originalCwd |-> originalCwd, stack |-> stack,
               out |-> out, exitCode |-> exitCode, steps |-> steps,
               calls |-> calls]
  /\ pc' = other.pc
  /\ argv' = other.argv
  /\ cwd' = other.cwd
  /\ cwd0' = other.cwd0
  /\ projectName' = other.projectName
  /\ projectPath' = other.projectPath
  /\ i' = other.i
  /\ originalCwd' = other.originalCwd
  /\ stack' = other.stack
  /\ out' = other.out
  /\ exitCode' = other.exitCode
  /\ steps' = other.steps
  /\ calls' = other.calls
  /\ UNCHANGED << fsVars, run, dirs0, files0, hist, hist0, runner, home >>

NextRace ==
  \/ Switch
  \/ EnsureConfigDir
  \/ ConfigMkdir
  \/ Run
  \/ Validate
  \/ MkRoot
  \/ MkDirs
  \/ WriteFiles
  \/ SetupProtocols
  \/ CopyEnter
  \/ CopyDescend
  \/ CopyFile
  \/ CopyReturn
  \/ CreateBasicProtocols
  \/ GenerateAIContext
  \/ InitializeGit
  \/ GitExec
  \/ GitFinally
  \/ Report

SpecRace == InitRace /\ [][NextRace]_vars


\* ------------------------------------------------------------------------
\* `new` started inside the bundled reference directory
\* ------------------------------------------------------------------------
\* `new a` is started with the bundled reference directory as working
\* directory, so that <cwd>/a/BestPractices/Generic lies inside the
\* directory that setupProtocols copies.
InitNested ==
  /\ dirs = Prefixes(Workspace) \cup Prefixes(Home) \cup Prefixes(InstallDir)
            \cup BundleDirs
  /\ files = BundleFiles
  /\ git = << >>
  /\ run = 1
  /\ pc = "ctor"
  /\ argv = << Seg("new"), <<"a">> >>
  /\ cwd = BundlePath
  /\ cwd0 = BundlePath
  /\ projectName = Undefined
  /\ projectPath = <<>>
  /\ i = 0
  /\ originalCwd = <<>>
  /\ stack = <<>>
  /\ out = <<>>
  /\ exitCode = -1
  /\ steps = <<>>
  /\ calls = <<>>
  /\ dirs0 = dirs
  /\ files0 = files
  /\ hist = [created |-> {}, wrote |-> << >>, succeeded |-> {}]
  /\ hist0 = hist
  /\ other = NoProcess
  /\ runner = NoRunner
  /\ home = Home

\* The steps of `new` up to and including the copy of the bundled
\* directory.
NextNested ==
  \/ EnsureConfigDir
  \/ ConfigMkdir
  \/ Run
  \/ Validate
  \/ MkRoot
  \/ MkDirs
  \/ WriteFiles
  \/ SetupProtocols
  \/ CopyEnter
  \/ CopyDescend
  \/ CopyFile
  \/ CopyReturn

SpecNested == InitNested /\ [][NextNested]_vars

\* ------------------------------------------------------------------------
\* `ai prepare`, again and again
\* ------------------------------------------------------------------------
\* The directories of a project that `new` has made at `root`.
ProjectDirs(root) ==
  Prefixes(root)
  \cup UNION { Prefixes(JoinRel(root, DirectorySpec[k])) : k \in DOMAIN DirectorySpec }

\* The files of a project that `new <name>` has made at `root`, with the
\* bundled documents or with the built-in ones.
ProjectFiles(root, name, bundled) ==
  LET generic == JoinRel(root, << Seg("BestPractices"), Seg("Generic") >>)
      written(c) == [c EXCEPT !.name = Utf8Encode(@)]
      scaffold == { << JoinRel(root, FileSpec(root)[k].file),
                       written(FileSpec(root)[k].content) >> : k \in DOMAIN FileSpec(root) }
      protocols ==
        IF bundled
          THEN { << generic \o SubSeq(q, Len(BundlePath) + 1, Len(q)), BundleFiles[q] >> :
                   q \in DOMAIN BundleFiles }
          ELSE { << Append(generic, BasicProtocols[k]),
                    written(Content("protocol", BasicProtocols[k], 0)) >> :
                   k \in DOMAIN BasicProtocols }
      context == { << JoinRel(ContextDirOf(root), << Seg("ai-context.md") >>),
                      written(AIContext(name)) >>,
                   << JoinRel(ContextDirOf(root), << Seg("project-dna.json") >>),
                      written(ProjectDNA(name)) >> }
      all == scaffold \cup protocols \cup context
  IN  [p \in { x[1] : x \in all } |-> (CHOOSE x \in all : x[1] = p)[2]]

\* Where the project is, and the directories `ai prepare` is started in: the
\* project root, a directory inside the project, and the directory above.
PreparedProject == PathJoin(Workspace, <<"a">>)
PrepareDirs ==
  { Workspace, PreparedProject, JoinRel(PreparedProject, << Seg("docs") >>) }

\* What the last process printed, when it was an `ai prepare`.
NotPrepared == [cwd |-> <<>>, out |-> <<>>, exitCode |-> -1]

\* Invocation 1 was a `new a` in the workspace that ran to its report
\* without git; no process is running.
InitPrepare ==
  /\ run = 1
  /\ cwd = Workspace
  /\ \E bundled \in BOOLEAN :
       /\ dirs = Prefixes(Workspace) \cup Prefixes(Home) \cup Prefixes(InstallDir)
                 \cup { ConfigDirs[k] : k \in DOMAIN ConfigDirs }
                 \cup ProjectDirs(PreparedProject)
                 \cup (IF bundled
                         THEN BundleDirs
                              \cup { JoinRel(PreparedProject,
                                             << Seg("BestPractices"), Seg("Generic"), Seg("deep") >>) }
                         ELSE {})
       /\ files = ProjectFiles(PreparedProject, <<"a">>, bundled)
                  @@ (IF bundled THEN BundleFiles ELSE << >>)
  /\ git = << >>
  /\ pc = "idle"
  /\ argv = <<>>
  /\ cwd0 = Workspace
  /\ projectName = Undefined
  /\ projectPath = <<>>
  /\ i = 0
  /\ originalCwd = <<>>
  /\ stack = <<>>
  /\ out = <<>>
  /\ exitCode = -1
  /\ steps = <<>>
  /\ calls = <<>>
  /\ dirs0 = dirs
  /\ files0 = files
  /\ hist = [created |-> { << Workspace, <<"a">> >> },
             wrote |-> Record(<< >>, PreparedProject, AIContext(<<"a">>)),
             succeeded |-> { PreparedProject },
             prepared |-> NotPrepared]
  /\ hist0 = hist
  /\ other = NoProcess
  /\ runner = NoRunner
  /\ home = Home

\* A user starts `ai prepare`; the history keeps what the process before
\* printed.
StartPrepare ==
  /\ pc \in {"idle", "done"}
  /\ run < 1 + MaxPrepares
  /\ \E d \in PrepareDirs \cap dirs :
       /\ cwd' = d
       /\ cwd0' = d
  /\ argv' = << Seg("ai"), Seg("prepare") >>
  /\ run' = run + 1
  /\ pc' = "ctor"
  /\ projectName' = Undefined
  /\ projectPath' = <<>>
  /\ i' = 0
  /\ originalCwd' = <<>>
  /\ stack' = <<>>
  /\ out' = <<>>
  /\ exitCode' = -1
  /\ steps' = <<>>
  /\ calls' = <<>>
  /\ dirs0' = dirs
  /\ files0' = files
  /\ hist' = [hist EXCEPT !.prepared =
                IF pc = "done"
                  THEN [cwd |-> cwd0, out |-> out, exitCode |-> exitCode]
                  ELSE NotPrepared]
  /\ hist0' = hist'
  /\ UNCHANGED << fsVars, other, runner, home >>

NextPrepare ==
  \/ StartPrepare
  \/ EnsureConfigDir
  \/ Run
  \/ HandleAICommand
  \/ PrepareAIContext

SpecPrepare == InitPrepare /\ [][NextPrepare]_vars

\* ------------------------------------------------------------------------
\* The generated tests/test-server.js
\* ------------------------------------------------------------------------
\* The names tests are registered under, and what a test function does when
\* it is called and awaited: its promise resolves, it throws before
\* returning, or its promise rejects.
TestNames == { "t1", "t2" }
TestFns == { "resolve", "throw", "reject" }

\* `node tests/test-server.js`: the script has made its TestRunner.
InitRunner ==
  /\ dirs = Prefixes(Workspace) \cup Prefixes(Home) \cup Prefixes(InstallDir)
  /\ files = << >>
  /\ git = << >>
  /\ run = 0
  /\ pc = "idle"
  /\ argv = <<>>
  /\ cwd = Workspace
  /\ cwd0 = Workspace
  /\ projectName = Undefined
  /\ projectPath = <<>>
  /\ i = 0
  /\ originalCwd = <<>>
  /\ stack = <<>>
  /\ out = <<>>
  /\ exitCode = -1
  /\ steps = <<>>
  /\ calls = <<>>
  /\ dirs0 = dirs
  /\ files0 = files
  /\ hist = [created |-> {}, wrote |-> << >>, succeeded |-> {}]
  /\ hist0 = hist
  /\ other = NoProcess
  /\ runner = NewRunner
  /\ home = Home

kernelVars == << dirs, files, git, run, pc, argv, cwd, cwd0, projectName,
                 projectPath, i, originalCwd, stack, out, exitCode, steps,
                 calls, dirs0, files0, hist, hist0, other, home >>

\* runner.test(name, testFn): this.tests.push({ name, testFn })
RunnerTest ==
  /\ runner.pc = "registering"
  /\ Len(runner.tests) < MaxTests
  /\ \E name \in TestNames, testFn \in TestFns :
       runner' = [runner EXCEPT !.tests = Append(@, [name |-> name, testFn |-> testFn])]
  /\ UNCHANGED kernelVars

\* runner.run(): the first console.log.
RunnerRun ==
  /\ runner.pc = "registering"
  /\ runner' = [runner EXCEPT !.pc = "running",
                              !.out = Append(@, << "Running tests" >>)]
  /\ UNCHANGED kernelVars

\* run() that leaves the loop at the first test that fails.
RunnerIterate_StopAtFailure ==
  /\ runner.pc = "running"
  /\ runner.next <= Len(runner.tests)
  /\ LET t == runner.tests[runner.next]
     IN  runner' =
           IF t.testFn = "resolve"
             THEN [runner EXCEPT !.out = Append(@, << "passed", t.name >>),
                                 !.passed = @ + 1,
                                 !.total = @ + 1,
                                 !.ran = Append(@, runner.next),
                                 !.next = @ + 1]
             ELSE [runner EXCEPT !.out = Append(@, << "failed", t.name >>),
                                 !.failed = @ + 1,
                                 !.total = @ + 1,
                                 !.ran = Append(@, runner.next),
                                 !.next = Len(runner.tests) + 1]
  /\ UNCHANGED kernelVars

\* run(): one pass of `for (const { name, testFn } of this.tests)`: the
\* awaited call in the try, the catch, and this.results.total++.
RunnerIterate ==
  /\ runner.pc = "running"
  /\ runner.next <= Len(runner.tests)
  /\ LET t == runner.tests[runner.next]
     IN  runner' =
           IF t.testFn = "resolve"
             THEN [runner EXCEPT !.out = Append(@, << "passed", t.name >>),
                                 !.passed = @ + 1,
                                 !.total = @ + 1,
                                 !.ran = Append(@, runner.next),
                                 !.next = @ + 1]
             ELSE [runner EXCEPT !.out = Append(@, << "failed", t.name >>),
                                 !.failed = @ + 1,
                                 !.total = @ + 1,
                                 !.ran = Append(@, runner.next),
                                 !.next = @ + 1]
  /\ UNCHANGED kernelVars

\* run(): after the loop, the results line and process.exit(1) if a test
\* failed; otherwise the script ends and node exits with code 0.
RunnerFinish ==
  /\ runner.pc = "running"
  /\ runner.next > Len(runner.tests)
  /\ runner' = [runner EXCEPT !.pc = "done",
                              !.out = Append(@, << "Results", runner.passed, runner.total >>),
                              !.exitCode = IF runner.failed > 0 THEN 1 ELSE 0]
  /\ UNCHANGED kernelVars

NextRunner ==
  \/ RunnerTest
  \/ RunnerRun
  \/ RunnerIterate
  \/ RunnerFinish

SpecRunner == InitRunner /\ [][NextRunner]_vars

\* ------------------------------------------------------------------------
\* Properties
\* ------------------------------------------------------------------------
Range(s) == { s[k] : k \in DOMAIN s }

FsOps == { "mkdir", "write", "copy" }
GitOps == { "git init", "git add .", "git commit" }

\* The running (or last) process is `new ...`.
IsNew == Len(argv) >= 1 /\ argv[1] = Seg("new")

\* The name given to `new` is missing or empty.
NoName == Len(argv) < 2 \/ argv[2] = <<>>

\* <cwd>/<name> of the running `new`.
Target == PathJoin(cwd0, argv[2])

\* <cwd>/<name> existed when the process started.
TargetExisted == Target \in dirs0 \cup DOMAIN files0

NoFsFailure == \A k \in DOMAIN calls : calls[k].op \in FsOps => calls[k].ok

GitFailed == \E k \in DOMAIN calls : calls[k].op \in GitOps /\ ~calls[k].ok

ExpectedDirs ==
  { << Seg("src") >>, << Seg("tests") >>, << Seg("docs") >>,
    << Seg("public") >>, << Seg("data") >>,
    << Seg("BestPractices"), Seg("Generic") >>,
    << Seg("BestPractices"), Seg("ProjectSpecific") >>,
    << Seg(".kt-context") >> }

ExpectedFiles ==
  { << Seg("package.json") >>, << Seg("README.md") >>, << Seg(".gitignore") >>,
    << Seg("src"), Seg("server.js") >>,
    << Seg("tests"), Seg("test-server.js") >>,
    << Seg("docs"), Seg("API_DOCUMENTATION.md") >>,
    << Seg("data"), Seg("README.md") >>,
    << Seg(".kt-context"), Seg("ai-context.md") >>,
    << Seg(".kt-context"), Seg("project-dna.json") >> }

\* C1: a `new <name>` with a non-empty name whose target did not exist, and
\* in which no filesystem call failed, ends with the target holding every
\* DirectorySpec directory, every FileSpec file and the two context files.
C1_NewCreatesEverything ==
  (pc = "done" /\ IsNew /\ ~NoName /\ ~TargetExisted /\ NoFsFailure)
    => /\ Target \in dirs
       /\ \A d \in ExpectedDirs : Target \o d \in dirs
       /\ \A f \in ExpectedFiles : Target \o f \in DOMAIN files

C1_Witness ==
  /\ pc = "done"
  /\ argv = << Seg("new"), <<"a", "/", "b">> >>
  /\ ~TargetExisted
  /\ NoFsFailure
  /\ GitFailed
  /\ Target \o << Seg("public") >> \in dirs

\* C2: a `new <name>` started where an earlier `new <name>` from the same
\* working directory made its project root changes no file and no
\* directory, runs no command, and ends with the 'already exists' error.
C2_SecondNewRejected ==
  (pc # "idle" /\ IsNew /\ ~NoName /\ << cwd0, Arg(2) >> \in hist0.created)
    => /\ dirs = dirs0
       /\ files = files0
       /\ calls = <<>>
       /\ pc \in { "ctor", "run", "validate", "done" }
       /\ pc = "done" => /\ out = << Msg("error", "already exists") >>
                         /\ exitCode = 0

C2_Witness ==
  /\ pc = "done"
  /\ argv = << Seg("new"), <<"a">> >>
  /\ << cwd0, <<"a">> >> \in hist0.created
  /\ Target \in hist0.succeeded
  /\ out = << Msg("error", "already exists") >>

\* C3: when createProject is entered with a missing or empty name, or with
\* a name whose target exists, it prints the matching error, enters no step
\* after Validate, writes nothing and runs no command, and the process ends
\* with exit code 0.
C3_ValidationFailure ==
  (pc = "done" /\ IsNew /\ steps # <<>> /\ (NoName \/ TargetExisted))
    => /\ steps = << "Validate" >>
       /\ exitCode = 0
       /\ out = << Msg("error", IF NoName THEN "Project name required"
                                ELSE "already exists") >>
       /\ files = files0
       /\ dirs \subseteq dirs0 \cup Range(ConfigDirs)
       /\ \A k \in DOMAIN calls :
            calls[k].op = "mkdir" /\ calls[k].path \in Range(ConfigDirs)

C3_Witness ==
  /\ pc = "done"
  /\ argv = << Seg("new") >>
  /\ steps = << "Validate" >>
  /\ calls # <<>>
  /\ out = << Msg("error", "Project name required") >>

\* C4: once a git subprocess has failed, the process is in or after the
\* finally clause, the warning is printed, the exit code is never 1, and the
\* process ends with the Report step and exit code 0.
C4_GitFailureNeverAborts ==
  GitFailed
    => /\ pc \in { "finally", "report", "done" }
       /\ exitCode # 1
       /\ Msg("log", "Git initialization skipped") \in Range(out)
       /\ pc = "done" => /\ exitCode = 0
                         /\ steps[Len(steps)] = "Report"
                         /\ Msg("log", "created successfully") \in Range(out)

C4_Witness ==
  /\ pc = "done"
  /\ \E k \in DOMAIN calls : calls[k] = Call("git add .", projectPath, TRUE)
  /\ \E k \in DOMAIN calls : calls[k] = Call("git commit", projectPath, FALSE)
  /\ steps[Len(steps)] = "Report"

\* C5: after the VersionControl step the working directory is the one the
\* step started with, which is the one the process started with, whatever
\* the three git commands did.
C5_CwdRestored ==
  ("VersionControl" \in Range(steps) /\ pc \in { "report", "done" })
    => /\ cwd = originalCwd
       /\ cwd = cwd0

C5_Witness ==
  /\ pc = "done"
  /\ "VersionControl" \in Range(steps)
  /\ \E k \in DOMAIN calls : calls[k] = Call("git add .", projectPath, FALSE)
  /\ projectPath # cwd0
  /\ cwd = cwd0

StepOrder ==
  << "Validate", "Scaffold", "Protocols", "Context", "VersionControl", "Report" >>

UserErrors ==
  { Msg("error", "Project name required"), Msg("error", "already exists"),
    Msg("error", "No AI context found") }

\* The command calls a method the class does not define.
CallsUndefinedMethod ==
  \/ Arg(1) \in { Seg("learn"), Seg("sync") }
  \/ Arg(1) = Seg("ai") /\ Arg(2) \in { Seg("validate"), Seg("handoff") }

\* C6: the steps entered so far are always an initial part of Validate,
\* Scaffold, Protocols, Context, VersionControl, Report (so each is entered
\* at most once, in that order); after a validation error only Validate was
\* entered; after a failed filesystem call the process is over with nothing
\* attempted after the failure, no git command run and no report printed.
C6_LinearOrder ==
  /\ Len(steps) <= Len(StepOrder)
  /\ steps = SubSeq(StepOrder, 1, Len(steps))
  /\ (IsNew /\ Range(out) \cap UserErrors # {})
       => /\ steps = << "Validate" >>
          /\ pc = "done"
          /\ NoFsFailure
  /\ ~NoFsFailure
       => /\ pc = "done"
          /\ ~calls[Len(calls)].ok
          /\ \A k \in DOMAIN calls : calls[k].op \notin GitOps
          /\ "VersionControl" \notin Range(steps)
          /\ "Report" \notin Range(steps)
          /\ Msg("log", "created successfully") \notin Range(out)

C6_Witness ==
  /\ pc = "done"
  /\ steps = << "Validate", "Scaffold", "Protocols" >>
  /\ ~NoFsFailure
  /\ calls[Len(calls)].op = "copy"

\* What the calls that succeeded are still on disk.
CallsOnDisk ==
  \A k \in DOMAIN calls :
    calls[k].ok =>
      CASE calls[k].op = "mkdir" -> calls[k].path \in dirs
        [] calls[k].op \in { "write", "copy" } -> calls[k].path \in DOMAIN files
        [] OTHER -> TRUE

\* C7: a filesystem call that fails inside createProject ends the process
\* with the top-level handler's message and exit code 1, and everything
\* that existed or was written before it is still on disk; exit code 1
\* occurs only after a thrown error and never with a user-input error.
C7_FatalErrors ==
  /\ (pc = "done" /\ steps # <<>> /\ ~NoFsFailure)
       => /\ exitCode = 1
          /\ out[Len(out)] = Msg("error", "Error:")
          /\ steps[Len(steps)] \in { "Scaffold", "Protocols", "Context" }
          /\ CallsOnDisk
          /\ dirs0 \subseteq dirs
          /\ \A p \in DOMAIN files0 : p \in DOMAIN files /\ files[p] = files0[p]
  /\ exitCode = 1
       => /\ pc = "done"
          /\ ~NoFsFailure \/ CallsUndefinedMethod
          /\ out[Len(out)] \in { Msg("error", "Error:"), Msg("error", "uncaught") }
          /\ Range(out) \cap UserErrors = {}
  /\ (pc = "done" /\ Range(out) \cap UserErrors # {}) => exitCode = 0

C7_Witness ==
  /\ pc = "done"
  /\ exitCode = 1
  /\ steps = << "Validate", "Scaffold", "Protocols", "Context" >>
  /\ JoinRel(projectPath, << Seg(".kt-context"), Seg("ai-context.md") >>) \in DOMAIN files
  /\ JoinRel(projectPath, << Seg(".kt-context"), Seg("project-dna.json") >>) \notin DOMAIN files

\* The `name` of the package.json and the `project` of the project-dna.json
\* under project root p.
PackageName(p) == Utf8Decode(files[JoinRel(p, << Seg("package.json") >>)].name)
DnaProject(p) ==
  Utf8Decode(files[JoinRel(p, << Seg(".kt-context"), Seg("project-dna.json") >>)].name)

\* C8: after a `new <name>` that ran to its report, the name in package.json
\* is <name> as given, and is the project recorded in project-dna.json.
C8_PackageNameIsProjectName ==
  (pc = "done" /\ IsNew /\ "Report" \in Range(steps))
    => /\ PackageName(projectPath) = argv[2]
       /\ PackageName(projectPath) = DnaProject(projectPath)

IsPrepare == argv = << Seg("ai"), Seg("prepare") >>

ContextFileOf(d) == JoinRel(d, << Seg(".kt-context"), Seg("ai-context.md") >>)

\* C9: `ai prepare` started in a directory with no .kt-context/ai-context.md
\* prints the one user-facing error and nothing else, and ends with exit
\* code 0.
C9_PrepareWithoutContext ==
  (pc = "done" /\ IsPrepare /\ NoFsFailure
     /\ ContextFileOf(cwd0) \notin dirs0 \cup DOMAIN files0)
    => /\ exitCode = 0
       /\ out = << Msg("error", "No AI context found") >>

C9_Witness ==
  /\ pc = "done"
  /\ IsPrepare
  /\ JoinRel(cwd0, << Seg("package.json") >>) \in DOMAIN files0
  /\ ContextFileOf(cwd0) \notin DOMAIN files0
  /\ out = << Msg("error", "No AI context found") >>

\* C10: `ai prepare` started in the root of a project that a successful
\* `new` made prints, between its banner lines, the context document that
\* `new` wrote there.
C10_PrepareRoundTrip ==
  (pc = "done" /\ IsPrepare /\ NoFsFailure /\ cwd0 \in hist0.succeeded)
    => /\ exitCode = 0
       /\ out = << Msg("log", "Preparing AI Assistant context"),
                   Msg("log", "banner"),
                   MsgBody("log", "content", hist0.wrote[cwd0]),
                   Msg("log", "banner"),
                   Msg("log", "Copy the above text") >>

C10_Witness ==
  /\ pc = "done"
  /\ IsPrepare
  /\ cwd0 \in hist0.succeeded
  /\ \E k \in DOMAIN out :
       /\ out[k].text = "content"
       /\ out[k].body.kind = "ai-context.md"
       /\ out[k].body.name = <<"a">>
       /\ out[k].body = hist.wrote[cwd0]

\* The Protocols step of the running `new` is over.
ProtocolsDone ==
  /\ "Protocols" \in Range(steps)
  /\ pc = "context" \/ "Context" \in Range(steps)

\* <cwd>/<name>/BestPractices/Generic of the running `new`.
TargetGeneric == Target \o << Seg("BestPractices"), Seg("Generic") >>

\* The bundled reference directory existed when the process started.
Bundled == BundlePath \in dirs0

\* C11: without the bundled reference directory, once the Protocols step of
\* `new` is over BestPractices/Generic holds the four documents
\* CodeOrganizationFramework.md, GitWorkflowPatterns.md,
\* DocumentationFramework.md and ProtocolEvolutionFramework.md, each a
\* non-empty regular file, and no other entry.
C11_FourDocuments ==
  (pc # "idle" /\ IsNew /\ ~Bundled /\ ProtocolsDone)
    => /\ Entries(TargetGeneric)
            = { Append(TargetGeneric, Seg(n)) :
                  n \in { "CodeOrganizationFramework.md", "GitWorkflowPatterns.md",
                          "DocumentationFramework.md", "ProtocolEvolutionFramework.md" } }
       /\ \A p \in Entries(TargetGeneric) :
            /\ p \in DOMAIN files
            /\ p \notin dirs
            /\ files[p] # NoContent
            /\ files[p].kind = "protocol"

C11_Witness ==
  /\ pc = "done"
  /\ IsNew
  /\ ~Bundled
  /\ "Report" \in Range(steps)
  /\ Cardinality(Entries(TargetGeneric)) = 4
  /\ Append(TargetGeneric, Seg("ProtocolEvolutionFramework.md")) \in DOMAIN files

\* q relative to the bundled reference directory.
RelativeToBundle(q) == SubSeq(q, Len(BundlePath) + 1, Len(q))

\* C12: with the bundled reference directory, once the Protocols step of
\* `new` is over every directory and file at any depth below the bundled
\* directory has an entry at the same relative path below
\* BestPractices/Generic, a file with the same content, and the bundled tree
\* is what it was when the process started.
C12_FaithfulCopy ==
  (pc # "idle" /\ IsNew /\ Bundled /\ ProtocolsDone)
    => /\ \A q \in dirs0 :
            IsPrefix(BundlePath, q) => TargetGeneric \o RelativeToBundle(q) \in dirs
       /\ \A q \in DOMAIN files0 :
            IsPrefix(BundlePath, q)
              => /\ TargetGeneric \o RelativeToBundle(q) \in DOMAIN files
                 /\ files[TargetGeneric \o RelativeToBundle(q)] = files0[q]
       /\ \A q \in dirs \cup dirs0 \cup DOMAIN files \cup DOMAIN files0 :
            IsPrefix(BundlePath, q)
              => /\ q \in dirs <=> q \in dirs0
                 /\ q \in DOMAIN files <=> q \in DOMAIN files0
                 /\ q \in DOMAIN files0 => files[q] = files0[q]

C12_Witness ==
  /\ pc = "done"
  /\ IsNew
  /\ Bundled
  /\ "Report" \in Range(steps)
  /\ TargetGeneric \o << Seg("deep"), Seg("More.md") >> \in DOMAIN files
  /\ files[TargetGeneric \o << Seg("deep"), Seg("More.md") >>].kind = "bundle"
  /\ Append(TargetGeneric, Seg("Ref.md")) \in DOMAIN files

\* The copyFileSync calls of the process, and its writeFileSync calls below
\* BestPractices/Generic.
CopyCalls == { k \in DOMAIN calls : calls[k].op = "copy" }
SynthesisCalls ==
  { k \in DOMAIN calls : calls[k].op = "write" /\ IsPrefix(TargetGeneric, calls[k].path) }

\* C13: the Protocols step copies if and only if the bundled directory
\* exists and writes the built-in documents otherwise: a process never does
\* both, is in the copy only with the bundled directory and in the
\* synthesis only without it, has done the one that applies once the step is
\* over, and BestPractices/Generic never holds files of both origins.
C13_EitherOr ==
  (pc # "idle" /\ IsNew /\ Len(argv) >= 2)
    => LET generic == TargetGeneric
           copies == CopyCalls
           synthesis == { k \in DOMAIN calls :
                            calls[k].op = "write" /\ IsPrefix(generic, calls[k].path) }
           created == Msg("log", "Created basic Knowledge Transfer Protocols")
       IN  /\ copies # {} => Bundled /\ synthesis = {}
           /\ synthesis # {} => ~Bundled /\ copies = {}
           /\ pc = "copy" => Bundled
           /\ pc = "basic" => ~Bundled
           /\ ProtocolsDone
                => /\ Bundled
                        => /\ copies # {}
                           /\ \A k \in copies : IsPrefix(generic, calls[k].path)
                           /\ created \notin Range(out)
                   /\ ~Bundled
                        => /\ Cardinality(synthesis) = 4
                           /\ created \in Range(out)
           /\ Cardinality({ files[p].kind :
                              p \in { q \in DOMAIN files : IsPrefix(generic, q) } }) <= 1

C13_Witness ==
  /\ pc = "context"
  /\ IsNew
  /\ Bundled
  /\ Cardinality(CopyCalls) = 2
  /\ \A k \in CopyCalls : calls[k].ok
  /\ SynthesisCalls = {}

\* ~/.kt-cli, ~/.kt-cli/templates and ~/.kt-cli/protocols.
HomeConfig ==
  { Home \o << Seg(".kt-cli") >>,
    Home \o << Seg(".kt-cli"), Seg("templates") >>,
    Home \o << Seg(".kt-cli"), Seg("protocols") >> }

\* The first token is none of the commands that do work.
HelpOrVersion == Arg(1) \notin { Seg("new"), Seg("ai"), Seg("learn"), Seg("sync") }

\* C14: an invocation whose first token is `version`, `help`, missing or
\* unrecognized changes no file, removes no directory, creates no directory
\* other than ~/.kt-cli, ~/.kt-cli/templates and ~/.kt-cli/protocols (and
\* none of these when ~/.kt-cli existed at the start), creates nothing
\* below the working directory, and runs no subprocess.
C14_OnlyHomeConfig ==
  (pc # "idle" /\ HelpOrVersion)
    => /\ files = files0
       /\ dirs0 \subseteq dirs
       /\ dirs \ dirs0 \subseteq HomeConfig
       /\ \A q \in dirs \ dirs0 : ~IsPrefix(cwd0, q)
       /\ \A k \in DOMAIN calls :
            calls[k].op = "mkdir" /\ calls[k].path \in HomeConfig
       /\ Home \o << Seg(".kt-cli") >> \in dirs0 => dirs = dirs0 /\ calls = <<>>
       /\ cwd = cwd0

C14_Witness ==
  /\ pc = "done"
  /\ argv = << Seg("bogus") >>
  /\ Len(calls) = 3
  /\ dirs \ dirs0 = HomeConfig
  /\ files = files0

\* C15: the dispatcher looks at the first token only. With no failed
\* filesystem call: `version`, whatever follows it, prints the version and
\* nothing else; a first token that is missing or is none of new, ai, learn,
\* sync, version prints the help and nothing else; both end with exit code
\* 0 and enter no step of createProject. `new` enters createProject and
\* `ai` the AI dispatcher, and neither prints the help or the version.
C15_RoutesOnFirstToken ==
  (pc = "done" /\ NoFsFailure)
    => /\ Arg(1) = Seg("version")
            => /\ out = << Msg("log", "kt-cli v") >>
               /\ exitCode = 0
               /\ steps = <<>>
       /\ Arg(1) \notin { Seg("new"), Seg("ai"), Seg("learn"), Seg("sync"), Seg("version") }
            => /\ out = << Msg("log", "help") >>
               /\ exitCode = 0
               /\ steps = <<>>
       /\ Arg(1) = Seg("new")
            => /\ steps # <<>>
               /\ steps[1] = "Validate"
               /\ Range(out) \cap { Msg("log", "help"), Msg("log", "kt-cli v") } = {}
       /\ Arg(1) = Seg("ai")
            => /\ steps = <<>>
               /\ Range(out) \cap { Msg("log", "help"), Msg("log", "kt-cli v") } = {}
               /\ Arg(2) \notin { Seg("prepare"), Seg("validate"), Seg("handoff") }
                    => out = << Msg("log", "AI Commands:") >>
               /\ Arg(2) = Seg("prepare")
                    => out[1] \in { Msg("log", "Preparing AI Assistant context"),
                                    Msg("error", "No AI context found") }

C15_Witness ==
  /\ pc = "done"
  /\ argv = << Seg("version"), Seg("new") >>
  /\ out = << Msg("log", "kt-cli v") >>
  /\ exitCode = 0
  /\ dirs = dirs0

\* C16: `ai validate`, `ai handoff`, `learn` and `sync` end without an
\* error: exit code 0, nothing from the top-level handler, no file changed,
\* and for the two `ai` subcommands the usage hint is printed.
C16_UnimplementedAreNoOps ==
  (pc = "done" /\ CallsUndefinedMethod /\ NoFsFailure)
    => /\ exitCode = 0
       /\ Msg("error", "Error:") \notin Range(out)
       /\ files = files0
       /\ dirs \ dirs0 \subseteq HomeConfig
       /\ Arg(1) = Seg("ai") => Msg("log", "AI Commands:") \in Range(out)

\* Log c holds a write or a copy that succeeded below directory t.
WritesInto(c, t) ==
  \E k \in DOMAIN c :
    c[k].op \in { "write", "copy" } /\ c[k].ok /\ IsPrefix(t, c[k].path)

\* C17: of two `new a` started together in the same working directory, at
\* most one gets past validation and writes below <cwd>/a, however their
\* existence checks and directory creations interleave.
C17_ExclusiveOwnership ==
  ~ /\ "Scaffold" \in Range(steps)
    /\ "Scaffold" \in Range(other.steps)
    /\ WritesInto(calls, Target)
    /\ WritesInto(other.calls, Target)

\* C18: once the constructor has returned, ~/.kt-cli exists together with
\* its templates and protocols subdirectories, whatever was there when the
\* process started.
C18_ConfigBootstrap ==
  (pc \notin { "idle", "ctor", "configMkdir" }
     /\ Msg("error", "uncaught") \notin Range(out))
    => HomeConfig \subseteq dirs

\* The positions in the log of the writeFileSync / copyFileSync calls.
WriteCalls == { k \in DOMAIN calls : calls[k].op \in { "write", "copy" } }

\* C19: in a `new`, before any file is written the project root and the
\* eight DirectorySpec directories have each been created by a mkdirSync
\* that succeeded; every write or copy goes into a directory that exists;
\* and .kt-context and BestPractices/Generic are created exactly once, by
\* the Scaffold step, never by a pre-check after the first write.
C19_DirectoriesFirst ==
  (pc # "idle" /\ IsNew /\ Len(argv) >= 2 /\ calls # <<>>)
    => LET root == Target
           writes == WriteCalls
           first == IF writes = {} THEN Len(calls) + 1
                    ELSE CHOOSE k \in writes : \A m \in writes : k <= m
           made == { calls[j].path :
                       j \in { m \in 1..(first - 1) : calls[m].op = "mkdir" /\ calls[m].ok } }
           prechecks == { j \in DOMAIN calls :
                            /\ calls[j].op = "mkdir"
                            /\ calls[j].path \in { root \o << Seg(".kt-context") >>,
                                                   root \o << Seg("BestPractices"), Seg("Generic") >> } }
       IN  /\ writes # {} => \A d \in ExpectedDirs \cup { <<>> } : root \o d \in made
           /\ \A k \in writes :
                /\ Dirname(calls[k].path) \in dirs
                /\ IsPrefix(root, calls[k].path)
           /\ \A j \in prechecks :
                /\ j < first
                /\ \A k \in prechecks : calls[k].path = calls[j].path => k = j

C19_Witness ==
  /\ pc = "done"
  /\ IsNew
  /\ ~Bundled
  /\ "Report" \in Range(steps)
  /\ Cardinality(WriteCalls) = 13
  /\ \A k \in DOMAIN calls : calls[k].path # ConfigDir

\* The subprocess calls of the process, in the order they were made.
GitCalls == SelectSeq(calls, LAMBDA c : c.op \in GitOps)

\* C20: the subprocess calls of a `new` are an initial part of git init,
\* git add ., git commit, each made in the new project root, each made only
\* after the one before it succeeded, none when the target existed; the
\* repository of a new project root never has more than one commit, and has
\* one exactly when the third call succeeded; the 'initialized' message is
\* printed exactly when all three succeeded.
C20_GitOrder ==
  (pc # "idle" /\ IsNew /\ Len(argv) >= 2)
    => /\ Len(GitCalls) <= 3
       /\ \A k \in DOMAIN GitCalls :
            /\ GitCalls[k].op = << "git init", "git add .", "git commit" >>[k]
            /\ GitCalls[k].path = Target
            /\ k < Len(GitCalls) => GitCalls[k].ok
       /\ GitCalls # <<>> => "VersionControl" \in Range(steps)
       /\ Msg("log", "Git repository initialized") \in Range(out)
            <=> (Len(GitCalls) = 3 /\ GitCalls[3].ok)
       /\ TargetExisted => GitCalls = <<>>
       /\ (~TargetExisted /\ Target \in DOMAIN git)
            => /\ git[Target].commits <= 1
               /\ git[Target].commits = 1 <=> (Len(GitCalls) = 3 /\ GitCalls[3].ok)

C20_Witness ==
  /\ pc = "done"
  /\ IsNew
  /\ Len(GitCalls) = 3
  /\ GitCalls[3] = Call("git commit", Target, TRUE)
  /\ Target \in DOMAIN git
  /\ git[Target].commits = 1
  /\ Msg("log", "Git repository initialized") \in Range(out)

\* C21: within one invocation no filesystem call and no git command is made
\* twice for the same path, and a call that failed is the last call the
\* process makes.
C21_NoRetry ==
  /\ Cardinality({ << calls[k].op, calls[k].path >> : k \in DOMAIN calls }) = Len(calls)
  /\ \A k \in DOMAIN calls : ~calls[k].ok => k = Len(calls)

C21_Witness ==
  /\ pc = "done"
  /\ IsNew
  /\ Len(calls) >= 10
  /\ calls[Len(calls)].op = "write"
  /\ ~calls[Len(calls)].ok
  /\ exitCode = 1

\* The positions of the registered tests whose function throws or rejects.
FailingTests == { k \in DOMAIN runner.tests : runner.tests[k].testFn # "resolve" }

DirsAtCopyStart ==
  dirs0 \cup { Target \o d : d \in ExpectedDirs \cup { <<>>, << Seg("BestPractices") >> } }

\* C23: copyDirectory visits only what was in the source tree when the copy
\* began, each directory once, also when the destination lies inside the
\* source: every directory an active copyDirectory call reads existed when
\* the copy began, no directory is read by two active calls, and the copy
\* does not end in a failed call that no fault of the filesystem explains.
C23_CopyVisitsSourceOnce ==
  (pc = "copy" /\ IsNew)
    => /\ \A k \in DOMAIN stack : stack[k].src \in DirsAtCopyStart
       /\ \A j, k \in DOMAIN stack : stack[j].src = stack[k].src => j = k

\* An earlier `new` with this name from this working directory created the
\* project root and ended before it wrote the project-dna.json, the last
\* file of the Context step.
LeftPartial ==
  /\ IsNew
  /\ ~NoName
  /\ << cwd0, Arg(2) >> \in hist0.created
  /\ Target \o << Seg(".kt-context"), Seg("project-dna.json") >> \notin DOMAIN files0

\* C24: a `new <name>` started where an earlier `new <name>` from the same
\* working directory left a partial project changes no file and no
\* directory, makes no call, never gets past Validate, and ends with the
\* 'already exists' error and exit code 0.
C24_PartialNeverResumed ==
  (pc # "idle" /\ LeftPartial)
    => /\ dirs = dirs0
       /\ files = files0
       /\ calls = <<>>
       /\ "Scaffold" \notin Range(steps)
       /\ pc \in { "ctor", "run", "validate", "done" }
       /\ pc = "done" => /\ steps = << "Validate" >>
                         /\ out = << Msg("error", "already exists") >>
                         /\ exitCode = 0

C24_Witness ==
  /\ pc = "done"
  /\ LeftPartial
  /\ Target \o << Seg("package.json") >> \in DOMAIN files0
  /\ Target \o << Seg("src"), Seg("server.js") >> \notin DOMAIN files0
  /\ files = files0
  /\ out = << Msg("error", "already exists") >>

\* C25: an `ai prepare` changes no file, and no directory at or below its
\* working directory (nor anywhere else, the home config apart), whether or
\* not it finds the context document; and an `ai prepare` that follows
\* another in the same directory prints what that one printed.
C25_PrepareReadOnly ==
  (pc # "idle" /\ IsPrepare)
    => /\ files = files0
       /\ dirs0 \subseteq dirs
       /\ dirs \ dirs0 \subseteq HomeConfig
       /\ \A q \in dirs \ dirs0 : ~IsPrefix(cwd0, q)
       /\ cwd = cwd0
       /\ \A k \in DOMAIN calls : calls[k].op = "mkdir" /\ calls[k].path \in HomeConfig
       /\ (pc = "done" /\ NoFsFailure /\ hist0.prepared.cwd = cwd0)
            => /\ out = hist0.prepared.out
               /\ exitCode = hist0.prepared.exitCode

C25_Witness ==
  /\ pc = "done"
  /\ IsPrepare
  /\ run = 3
  /\ cwd0 = PreparedProject
  /\ hist0.prepared.cwd = cwd0
  /\ \E k \in DOMAIN out :
       /\ out[k].text = "content"
       /\ out[k].body = hist.wrote[cwd0]
  /\ out = hist0.prepared.out

\* The constructor threw: HOME was not set, or a mkdirSync of the bootstrap
\* failed.
BootstrapThrew ==
  /\ pc = "done"
  /\ \/ home = NoHome
     \/ \E k \in DOMAIN calls : calls[k].path \in HomeConfig /\ ~calls[k].ok

\* The bootstrap has run to its end: ~/.kt-cli was there, or the three
\* mkdirSync were made, in order, and succeeded.
BootstrapComplete ==
  /\ home # NoHome
  /\ \/ Home \o << Seg(".kt-cli") >> \in dirs0
     \/ /\ Len(calls) >= 3
        /\ calls[1] = Call("mkdir", Home \o << Seg(".kt-cli") >>, TRUE)
        /\ calls[2] = Call("mkdir", Home \o << Seg(".kt-cli"), Seg("templates") >>, TRUE)
        /\ calls[3] = Call("mkdir", Home \o << Seg(".kt-cli"), Seg("protocols") >>, TRUE)

\* C26: a process is in the dispatcher or a handler, or has printed
\* anything from them, only after the bootstrap has run to its end; when the
\* constructor throws, the process ends with exit code 1 and Node's report
\* of the uncaught exception as its only output, no handler has run, no file
\* has changed, nothing was created at or below the working directory, and
\* the message of the top-level handler is not printed.
C26_BootstrapFirst ==
  /\ (pc \notin { "idle", "ctor", "configMkdir" } /\ ~BootstrapThrew) => BootstrapComplete
  /\ (steps # <<>> \/ projectName # Undefined \/ pc \in { "run", "ai", "prepare", "validate" })
       => BootstrapComplete
  /\ BootstrapThrew
       => /\ out = << Msg("error", "uncaught") >>
          /\ exitCode = 1
          /\ steps = <<>>
          /\ projectName = Undefined
          /\ files = files0
          /\ dirs \ dirs0 \subseteq HomeConfig
          /\ \A q \in dirs \ dirs0 : ~IsPrefix(cwd0, q)
          /\ \A k \in DOMAIN calls : calls[k].path \in HomeConfig
  /\ home = NoHome
       => /\ pc \in { "idle", "ctor", "done" }
          /\ calls = <<>>
          /\ dirs = dirs0

C26_Witness ==
  /\ pc = "done"
  /\ home = NoHome
  /\ argv = << Seg("new"), <<"a">> >>
  /\ out = << Msg("error", "uncaught") >>
  /\ exitCode = 1
  /\ PathJoin(cwd0, <<"a">>) \notin dirs

====
